---- MODULE Spec2Model ----
(***************************************************************************)
(* The job-portal server: its SQLite store (users, profiles, jobs), the    *)
(* JWT gate (authenticateToken / authenticateAdmin) and the route handlers *)
(* of the Express application, one action per route; the handlers that    *)
(* await bcrypt can also be served in two steps, up to the await and from  *)
(* it, with other requests served in between.                              *)
(***************************************************************************)
EXTENDS Integers, Sequences, FiniteSets, TLC

VARIABLES
    proc,       \* "stopped" | "serving" | "crashed": the node process
    users,      \* table users: id -> row
    userSeq,    \* sqlite_sequence of users (AUTOINCREMENT: ids are never reused)
    profiles,   \* table profiles, keyed by its UNIQUE user_id
    jobs,       \* table jobs: id -> row
    jobSeq,     \* sqlite_sequence of jobs
    issued,     \* every token the server has signed so far (held by clients)
    refused,    \* <<t>>: the token last refused for suspension; <<>>: none yet
    first,      \* <<id>>: the user last created into a store without users
    pending     \* the requests waiting on bcrypt, each with what it holds

vars ==
    <<proc, users, userSeq, profiles, jobs, jobSeq, issued, refused, first,
      pending>>

\* The store as one value: what a handler reads and what it leaves behind.
db ==
    [users |-> users, userSeq |-> userSeq, profiles |-> profiles,
     jobs |-> jobs, jobSeq |-> jobSeq]

\* ------------------------------------------------------------------ bounds
MaxId == 2
MaxJobs == 1
MaxPending == 1

Ids == 1..MaxId
JobIds == 1..MaxJobs

\* NULL in a column; undefined in a request body (bound as NULL).
NULL == "NULL"

\* The names and emails requests are made with. A username may have the
\* form of an email: nothing validates either.
Names == {"Admin", "admin@ankur.com"}
Emails == {"admin@ankur.com", "k@x.io"}

\* ------------------------------------------------------------ jwt, bcrypt
JWT_SECRET == "ankur-secret-key"

\* jwt.sign(payload, secret): the payload together with a signature made with
\* the secret.
jwt_sign(payload, secret) ==
    [id |-> payload.id, username |-> payload.username, email |-> payload.email,
     role |-> payload.role, sig |-> secret]

\* A verification that only decodes the token and accepts any signature.
jwt_decode(token, secret) == TRUE

\* A verification against a session store: the token's user must be stored.
jwt_verify_Session(token, secret) ==
    token.sig = secret /\ token.id \in DOMAIN users

\* jwt.verify(token, secret): err is set unless the signature was made with
\* the secret. No expiry is set at signing, so none is checked.
jwt_verify(token, secret) == token.sig = secret

\* bcrypt.hash(password, 10) and bcrypt.compare(password, hash).
bcrypt_hash(password) == <<"$2a$10$", password>>
bcrypt_compare(password, hash) == hash = bcrypt_hash(password)

\* Tokens not signed by this server that a client may still present.
Forged ==
    { jwt_sign([id |-> i, username |-> "Admin", email |-> "admin@ankur.com",
                role |-> "admin"], "not-the-secret") : i \in {1} }

\* The Authorization header, already split on ' ': absent, a scheme with no
\* token, or a scheme and a token.
Bearer(t) == <<"Bearer", t>>
Headers == {<<>>, <<"Bearer">>} \cup { Bearer(t) : t \in issued \cup Forged }

\* ------------------------------------------------------------------- rows
UserRow(username, email, password, role) ==
    [username |-> username, email |-> email, password |-> password,
     role |-> role, is_suspended |-> 0, is_public |-> 1]

ProfileRow(name) ==
    [name |-> name, photo_url |-> NULL, contact_details |-> NULL,
     location |-> NULL, skills |-> NULL, experience |-> NULL,
     education |-> NULL, resume_url |-> NULL, portfolio_url |-> NULL,
     linkedin_url |-> NULL, github_url |-> NULL]

\* f with key k removed / with k mapped to v.
Without(f, k) == [x \in DOMAIN f \ {k} |-> f[x]]
With(f, k, v) == [x \in DOMAIN f \cup {k} |-> IF x = k THEN v ELSE f[x]]

\* A uniqueness check on the username alone.
UniqueViolation_UsernameOnly(username, email) ==
    \E i \in DOMAIN users : users[i].username = username

\* A uniqueness check on the email alone.
UniqueViolation_EmailOnly(username, email) ==
    \E i \in DOMAIN users : users[i].email = email

\* The UNIQUE constraints of table users.
UniqueViolation(username, email) ==
    \E i \in DOMAIN users :
        users[i].username = username \/ users[i].email = email

\* ------------------------------------------------------------- responses
\* What serving one request comes to: the response (status, error, out),
\* whether the gate's suspension lookup ran (looked) and whether the route's
\* handler ran (ran), the store afterwards and the tokens signed.
Response(status, error, looked, ran, out, store, signed) ==
    [status |-> status, error |-> error, looked |-> looked, ran |-> ran,
     out |-> out, db |-> store, signed |-> signed]

\* A handler's answer that writes nothing / that leaves the store as st.
Answer(status, error, out) == Response(status, error, TRUE, TRUE, out, db, {})
Written(status, out, st) == Response(status, NULL, TRUE, TRUE, out, st, {})

\* ----------------------------------------------------------------- gates
Reject(status, error, looked) ==
    [next |-> FALSE, status |-> status, error |-> error, looked |-> looked,
     user |-> NULL]

SuspendedMsg == "Account suspended. Please contact support."

\* A gate without the suspension lookup (the gate of src/server.ts).
authenticateToken_NoSuspension(hdr) ==
    IF Len(hdr) < 2 THEN Reject(401, "Unauthorized", FALSE)
    ELSE LET token == hdr[2] IN
         IF ~jwt_verify(token, JWT_SECRET) THEN Reject(403, "Forbidden", FALSE)
         ELSE [next |-> TRUE, status |-> 0, error |-> NULL, looked |-> FALSE,
               user |-> token]

\* A gate that keeps turning down the token it refused for suspension.
authenticateToken_Revoking(hdr) ==
    IF Len(hdr) < 2 THEN Reject(401, "Unauthorized", FALSE)
    ELSE LET token == hdr[2] IN
         IF ~jwt_verify(token, JWT_SECRET) THEN Reject(403, "Forbidden", FALSE)
         ELSE IF \/ token.id \in DOMAIN users
                    /\ users[token.id].is_suspended # 0
                 \/ refused = <<token>>
              THEN Reject(403, SuspendedMsg, TRUE)
              ELSE [next |-> TRUE, status |-> 0, error |-> NULL,
                    looked |-> TRUE, user |-> token]

\* authenticateToken: 401 without a token, 403 when the token does not
\* verify, then the live suspension lookup by the token's id; a missing row
\* is not a reason to reject.
authenticateToken(hdr) ==
    IF Len(hdr) < 2
    THEN Reject(401, "Unauthorized", FALSE)
    ELSE LET token == hdr[2] IN
         IF ~jwt_verify(token, JWT_SECRET)
         THEN Reject(403, "Forbidden", FALSE)
         ELSE IF token.id \in DOMAIN users /\ users[token.id].is_suspended # 0
              THEN Reject(403, SuspendedMsg, TRUE)
              ELSE [next |-> TRUE, status |-> 0, error |-> NULL,
                    looked |-> TRUE, user |-> token]

\* A role check that is content with any stored user.
AdminRoleOk_AnyRow(user) == user.id \in DOMAIN users

\* A role check on the role the token carries.
AdminRoleOk_ByToken(user) == user.role = "admin"

\* The role gate of authenticateAdmin: the role stored for the id of req.user.
AdminRoleOk(user) == user.id \in DOMAIN users /\ users[user.id].role = "admin"

\* An admin gate that stops after the token gate.
authenticateAdmin_TokenOnly(hdr) == authenticateToken(hdr)

\* An admin gate that hands the handler the role it looked up.
authenticateAdmin_StoredRole(hdr) ==
    LET g == authenticateToken(hdr) IN
    IF ~g.next THEN g
    ELSE IF AdminRoleOk(g.user)
         THEN [g EXCEPT !.user.role = users[g.user.id].role]
         ELSE Reject(403, "Admin access required", TRUE)

authenticateAdmin(hdr) ==
    LET g == authenticateToken(hdr) IN
    IF ~g.next THEN g
    ELSE IF AdminRoleOk(g.user)
         THEN g
         ELSE Reject(403, "Admin access required", TRUE)

\* The response of a request the gate g rejected: no handler, nothing written.
Rejected(g) == Response(g.status, g.error, g.looked, FALSE, <<>>, db, {})

\* --------------------------------------------------------------- startup
\* startServer: seed the default Admin when no user is named 'Admin', then
\* promote the lowest id when no row has role admin. The seed's INSERT throws
\* when admin@ankur.com is taken; nothing catches it and the server never
\* listens.
SeedNeeded == ~\E i \in DOMAIN users : users[i].username = "Admin"

Promote(us) ==
    IF (\E i \in DOMAIN us : us[i].role = "admin") \/ DOMAIN us = {}
    THEN us
    ELSE LET firstUser == CHOOSE i \in DOMAIN us : \A j \in DOMAIN us : i <= j
         IN [us EXCEPT ![firstUser].role = "admin"]

\* What startServer comes to on the store as it is: the state of the process
\* and the store it leaves.
bootstrap ==
    IF SeedNeeded
    THEN IF UniqueViolation("Admin", "admin@ankur.com")
         THEN [proc |-> "crashed", db |-> db]
         ELSE LET id == userSeq + 1 IN
              [proc |-> "serving",
               db |-> [db EXCEPT
                  !.users = Promote(With(users, id,
                      UserRow("Admin", "admin@ankur.com",
                              bcrypt_hash("Admin"), "admin"))),
                  !.userSeq = id,
                  !.profiles = With(profiles, id, ProfileRow("Administrator"))]]
    ELSE [proc |-> "serving", db |-> [db EXCEPT !.users = Promote(users)]]

\* The user created into a store without users, after a step from the
\* store as it is to store st.
FirstAfter(st) ==
    IF DOMAIN users = {} /\ DOMAIN st.users # {} THEN <<st.userSeq>> ELSE first

\* The process starts (or is started again after a stop or a crash); the
\* requests that were waiting die with the old process.
startServer ==
    /\ bootstrap.db.userSeq <= MaxId
    /\ proc' = bootstrap.proc
    /\ users' = bootstrap.db.users
    /\ userSeq' = bootstrap.db.userSeq
    /\ profiles' = bootstrap.db.profiles
    /\ first' = FirstAfter(bootstrap.db)
    /\ pending' = <<>>
    /\ UNCHANGED <<jobs, jobSeq, issued, refused>>

\* A registration that stores the user without a profile.
register_NoProfile(username, email, password) ==
    IF username = "" \/ email = "" \/ password = ""
    THEN Response(400, "Missing fields", FALSE, TRUE, <<>>, db, {})
    ELSE IF UniqueViolation(username, email)
    THEN Response(400, "Username or email already exists", FALSE, TRUE, <<>>,
                  db, {})
    ELSE LET id == userSeq + 1
             token == jwt_sign([id |-> id, username |-> username,
                                email |-> email, role |-> "user"], JWT_SECRET)
         IN Response(201, NULL, FALSE, TRUE, <<token>>,
                [db EXCEPT
                   !.users = With(users, id,
                       UserRow(username, email, bcrypt_hash(password), "user")),
                   !.userSeq = id],
                {token})

\* ------------------------------------------------------------ auth routes
\* POST /api/auth/register
register(username, email, password) ==
    IF username = "" \/ email = "" \/ password = ""
    THEN Response(400, "Missing fields", FALSE, TRUE, <<>>, db, {})
    ELSE IF UniqueViolation(username, email)
    THEN Response(400, "Username or email already exists", FALSE, TRUE, <<>>,
                  db, {})
    ELSE LET id == userSeq + 1
             token == jwt_sign([id |-> id, username |-> username,
                                email |-> email, role |-> "user"], JWT_SECRET)
         IN Response(201, NULL, FALSE, TRUE, <<token>>,
                [db EXCEPT
                   !.users = With(users, id,
                       UserRow(username, email, bcrypt_hash(password), "user")),
                   !.userSeq = id,
                   !.profiles = With(profiles, id, ProfileRow(username))],
                {token})

\* SELECT * FROM users WHERE email = ? OR username = ?, and .get(): one of
\* the matching rows, in an order SQL leaves unspecified; 0 for no row.
LoginRows(identifier) ==
    LET rows == { i \in DOMAIN users :
                    users[i].email = identifier \/ users[i].username = identifier }
    IN IF rows = {} THEN {0} ELSE rows

\* A login that turns a suspended user down.
login_Suspension(row, password) ==
    IF row = 0 \/ ~bcrypt_compare(password, users[row].password)
          \/ users[row].is_suspended # 0
    THEN Response(401, "Invalid credentials", FALSE, TRUE, <<>>, db, {})
    ELSE LET token == jwt_sign([id |-> row, username |-> users[row].username,
                                email |-> users[row].email,
                                role |-> users[row].role], JWT_SECRET)
         IN Response(200, NULL, FALSE, TRUE, <<token>>, db, {token})

\* POST /api/auth/login, given the row the SELECT returned
login(row, password) ==
    IF row = 0 \/ ~bcrypt_compare(password, users[row].password)
    THEN Response(401, "Invalid credentials", FALSE, TRUE, <<>>, db, {})
    ELSE LET token == jwt_sign([id |-> row, username |-> users[row].username,
                                email |-> users[row].email,
                                role |-> users[row].role], JWT_SECRET)
         IN Response(200, NULL, FALSE, TRUE, <<token>>, db, {token})

\* POST /api/auth/forgot-password (mock: nothing is written)
forgot_password(email) ==
    IF \E i \in DOMAIN users : users[i].email = email
    THEN Response(200, NULL, FALSE, TRUE, <<>>, db, {})
    ELSE Response(404, "User not found", FALSE, TRUE, <<>>, db, {})

\* An update of the password without its WHERE clause.
SetPassword_AllRows(id, password) ==
    [i \in DOMAIN users |-> [users[i] EXCEPT !.password = password]]

\* UPDATE users SET password = ? WHERE id = ?
SetPassword(id, password) ==
    [i \in DOMAIN users |->
        IF i = id THEN [users[i] EXCEPT !.password = password] ELSE users[i]]

\* POST /api/auth/reset-password (gated)
reset_password(hdr, newPassword) ==
    LET g == authenticateToken(hdr) IN
    IF ~g.next THEN Rejected(g)
    ELSE IF newPassword = ""
    THEN Answer(400, "New password required", <<>>)
    ELSE Written(200, <<>>,
            [db EXCEPT !.users = SetPassword(g.user.id, bcrypt_hash(newPassword))])

\* ---------------------------------------------------------- upload routes
\* POST /api/upload/resume, POST /api/upload/photo (gated; the file goes to
\* the uploads directory, not to the store)
upload(hdr, hasFile) ==
    LET g == authenticateToken(hdr) IN
    IF ~g.next THEN Rejected(g)
    ELSE IF ~hasFile
    THEN Answer(400, "No file uploaded", <<>>)
    ELSE Answer(200, NULL, <<"/uploads/file">>)

\* ------------------------------------------------------------- job routes
JobBody(title, posted_by) ==
    [title |-> title, company |-> "acme", category |-> "IT", location |-> NULL,
     experience |-> NULL, salary |-> NULL, requirements |-> NULL,
     link |-> "http://j", link_type |-> NULL, posted_by |-> posted_by]

\* Foreign keys not enforced.
ForeignKeyViolation_Off(user_id) == FALSE

\* FOREIGN KEY(user_id) REFERENCES users(id), which the driver's build of
\* SQLite enforces (foreign keys are on by default in better-sqlite3).
ForeignKeyViolation(user_id) == user_id \notin DOMAIN users

\* GET /api/jobs (public)
get_jobs == Response(200, NULL, FALSE, TRUE, <<DOMAIN jobs>>, db, {})

\* POST /api/jobs (gated)
post_job(hdr, body) ==
    LET g == authenticateToken(hdr) IN
    IF ~g.next THEN Rejected(g)
    ELSE IF \E f \in {"title", "company", "category", "link", "posted_by"} :
               body[f] = NULL
    THEN Answer(400, "Missing required fields", <<>>)
    ELSE IF ForeignKeyViolation(g.user.id)
    THEN Answer(500, "Failed to post job", <<>>)
    ELSE LET id == jobSeq + 1 IN
         Written(201, <<id>>,
            [db EXCEPT
               !.jobs = With(jobs, id,
                   [body EXCEPT !.link_type =
                       IF body.link_type = NULL THEN "Other" ELSE body.link_type]
                   @@ [user_id |-> g.user.id]),
               !.jobSeq = id])

\* --------------------------------------------------------- profile routes
ProfileFields ==
    {"name", "photo_url", "contact_details", "location", "skills",
     "experience", "education", "resume_url", "portfolio_url", "linkedin_url",
     "github_url"}

\* GET /api/profile/me (gated): the caller's profile joined with its user
\* row, or nothing when there is no such row.
get_profile(hdr) ==
    LET g == authenticateToken(hdr) IN
    IF ~g.next THEN Rejected(g)
    ELSE Answer(200, NULL,
            IF g.user.id \in DOMAIN profiles /\ g.user.id \in DOMAIN users
            THEN <<g.user.id>> ELSE <<>>)

\* An update of the profiles without its WHERE clause.
put_profile_AllRows(hdr, body) ==
    LET g == authenticateToken(hdr) IN
    IF ~g.next THEN Rejected(g)
    ELSE LET id == g.user.id IN
         IF id \in DOMAIN profiles /\ body.name = NULL
         THEN Answer(500, "Failed to update profile", <<>>)
         ELSE Written(200, <<>>,
                [db EXCEPT
                   !.profiles = [i \in DOMAIN profiles |->
                       [f \in ProfileFields |-> body[f]]]])

\* An update that keeps the stored value of a field the body leaves out.
put_profile_Partial(hdr, body) ==
    LET g == authenticateToken(hdr) IN
    IF ~g.next THEN Rejected(g)
    ELSE LET id == g.user.id IN
         Written(200, <<>>,
            [db EXCEPT
               !.profiles = [i \in DOMAIN profiles |->
                   IF i = id
                   THEN [f \in ProfileFields |->
                           IF body[f] = NULL THEN profiles[i][f] ELSE body[f]]
                   ELSE profiles[i]],
               !.users = [i \in DOMAIN users |->
                   IF i = id /\ body.is_public # NULL
                   THEN [users[i] EXCEPT !.is_public =
                           IF body.is_public = "true" THEN 1 ELSE 0]
                   ELSE users[i]]])

\* PUT /api/profile/me (gated): every profile column is overwritten with the
\* body's value; name is NOT NULL; users.is_public only when present.
put_profile(hdr, body) ==
    LET g == authenticateToken(hdr) IN
    IF ~g.next THEN Rejected(g)
    ELSE LET id == g.user.id IN
         IF id \in DOMAIN profiles /\ body.name = NULL
         THEN Answer(500, "Failed to update profile", <<>>)
         ELSE Written(200, <<>>,
                [db EXCEPT
                   !.profiles = [i \in DOMAIN profiles |->
                       IF i = id THEN [f \in ProfileFields |-> body[f]]
                       ELSE profiles[i]],
                   !.users = [i \in DOMAIN users |->
                       IF i = id /\ body.is_public # NULL
                       THEN [users[i] EXCEPT !.is_public =
                               IF body.is_public = "true" THEN 1 ELSE 0]
                       ELSE users[i]]])

\* ------------------------------------------------------------ admin routes
\* GET /api/admin/users, GET /api/admin/stats (admin-gated reads)
admin_read(hdr) ==
    LET g == authenticateAdmin(hdr) IN
    IF ~g.next THEN Rejected(g)
    ELSE Answer(200, NULL, <<Cardinality(DOMAIN users), Cardinality(DOMAIN jobs)>>)

\* PUT /api/admin/users/:id/suspend
admin_suspend(hdr, id, is_suspended) ==
    LET g == authenticateAdmin(hdr) IN
    IF ~g.next THEN Rejected(g)
    ELSE Written(200, <<>>,
            [db EXCEPT !.users = [i \in DOMAIN users |->
                IF i = id
                THEN [users[i] EXCEPT !.is_suspended =
                        IF is_suspended THEN 1 ELSE 0]
                ELSE users[i]]])

\* A deletion that leaves the jobs of the user.
admin_delete_user_NoJobs(hdr, id) ==
    LET g == authenticateAdmin(hdr) IN
    IF ~g.next THEN Rejected(g)
    ELSE Written(200, <<>>,
            [db EXCEPT
               !.profiles = Without(profiles, id),
               !.users = Without(users, id)])

\* DELETE /api/admin/users/:id: the profile, the jobs, then the user row.
admin_delete_user(hdr, id) ==
    LET g == authenticateAdmin(hdr) IN
    IF ~g.next THEN Rejected(g)
    ELSE Written(200, <<>>,
            [db EXCEPT
               !.profiles = Without(profiles, id),
               !.jobs = [j \in {k \in DOMAIN jobs : jobs[k].user_id # id} |->
                           jobs[j]],
               !.users = Without(users, id)])

\* PUT /api/admin/users/:id/reset-password: bcrypt.hash throws on a missing
\* newPassword, which the handler turns into a 500.
admin_reset_password(hdr, id, newPassword) ==
    LET g == authenticateAdmin(hdr) IN
    IF ~g.next THEN Rejected(g)
    ELSE IF newPassword = NULL
    THEN Answer(500, "Failed to reset password", <<>>)
    ELSE Written(200, <<>>,
            [db EXCEPT !.users = SetPassword(id, bcrypt_hash(newPassword))])

\* A job deletion behind the token gate alone.
admin_delete_job_TokenGate(hdr, id) ==
    LET g == authenticateToken(hdr) IN
    IF ~g.next THEN Rejected(g)
    ELSE Written(200, <<>>, [db EXCEPT !.jobs = Without(jobs, id)])

\* DELETE /api/admin/jobs/:id
admin_delete_job(hdr, id) ==
    LET g == authenticateAdmin(hdr) IN
    IF ~g.next THEN Rejected(g)
    ELSE Written(200, <<>>, [db EXCEPT !.jobs = Without(jobs, id)])

\* PUT /api/admin/users/:id/clear-socials and .../clear-profile: the named
\* columns of the target's profile are set to NULL.
SocialFields == {"linkedin_url", "github_url", "portfolio_url"}
ContentFields == {"skills", "experience", "education", "contact_details"}

\* A clearing without its WHERE clause.
admin_clear_AllRows(fields, hdr, id) ==
    LET g == authenticateAdmin(hdr) IN
    IF ~g.next THEN Rejected(g)
    ELSE Written(200, <<>>,
            [db EXCEPT !.profiles = [i \in DOMAIN profiles |->
                [f \in ProfileFields |->
                    IF f \in fields THEN NULL ELSE profiles[i][f]]]])

admin_clear(fields, hdr, id) ==
    LET g == authenticateAdmin(hdr) IN
    IF ~g.next THEN Rejected(g)
    ELSE Written(200, <<>>,
            [db EXCEPT !.profiles = [i \in DOMAIN profiles |->
                IF i = id
                THEN [f \in ProfileFields |->
                        IF f \in fields THEN NULL ELSE profiles[i][f]]
                ELSE profiles[i]]])

\* PUT /api/admin/users/:id/profile: its first statement names a column
\* is_public that table profiles does not have, so preparing it throws and
\* the handler answers 500 before anything is written.
admin_edit_profile(hdr, id, email, role) ==
    LET g == authenticateAdmin(hdr) IN
    IF ~g.next THEN Rejected(g)
    ELSE Answer(500, "Failed to update user profile", <<>>)

\* PUT /api/admin/jobs/:id: title, company, category and link are NOT NULL;
\* posted_by and user_id are not among the columns it sets.
admin_edit_job(hdr, id, body) ==
    LET g == authenticateAdmin(hdr) IN
    IF ~g.next THEN Rejected(g)
    ELSE IF id \in DOMAIN jobs /\
            \E f \in {"title", "company", "category", "link"} : body[f] = NULL
    THEN Answer(500, "Failed to update job", <<>>)
    ELSE Written(200, <<>>,
            [db EXCEPT !.jobs = [j \in DOMAIN jobs |->
                IF j = id
                THEN [body EXCEPT !.posted_by = jobs[j].posted_by]
                     @@ [user_id |-> jobs[j].user_id]
                ELSE jobs[j]]])

\* ------------------------------------------------- requests that wait
\* Four handlers await bcrypt before they touch the store again; the event
\* loop serves other requests meanwhile. What such a request holds across
\* its await: its route, req.user (NULL on an open route) and the values of
\* its closure.
Waiting(route, user, arg) == [route |-> route, user |-> user, arg |-> arg]

\* The row a SELECT * FROM users returned, as the handler holds it.
Selected(row) == [id |-> row] @@ users[row]

\* A registration whose two INSERTs are apart: the rest after the first.
register_then_NoProfile(username, email, password) ==
    register_NoProfile(username, email, password)

\* register after `await bcrypt.hash`: the two INSERTs and the token.
register_then(username, email, password) ==
    IF UniqueViolation(username, email)
    THEN Response(400, "Username or email already exists", FALSE, TRUE, <<>>,
                  db, {})
    ELSE LET id == userSeq + 1
             token == jwt_sign([id |-> id, username |-> username,
                                email |-> email, role |-> "user"], JWT_SECRET)
         IN Response(201, NULL, FALSE, TRUE, <<token>>,
                [db EXCEPT
                   !.users = With(users, id,
                       UserRow(username, email, bcrypt_hash(password), "user")),
                   !.userSeq = id,
                   !.profiles = With(profiles, id, ProfileRow(username))],
                {token})

\* login after `await bcrypt.compare`: user is the row its SELECT returned
\* before the wait; the token is signed from that row.
login_then(user, password) ==
    IF ~bcrypt_compare(password, user.password)
    THEN Response(401, "Invalid credentials", FALSE, TRUE, <<>>, db, {})
    ELSE LET token == jwt_sign([id |-> user.id, username |-> user.username,
                                email |-> user.email, role |-> user.role],
                               JWT_SECRET)
         IN Response(200, NULL, FALSE, TRUE, <<token>>, db, {token})

\* reset-password after `await bcrypt.hash`: the UPDATE by req.user.id.
reset_password_then(user, newPassword) ==
    Written(200, <<>>,
        [db EXCEPT !.users = SetPassword(user.id, bcrypt_hash(newPassword))])

\* The admin's reset after `await bcrypt.hash`: the UPDATE by req.params.id.
admin_reset_password_then(id, newPassword) ==
    Written(200, <<>>,
        [db EXCEPT !.users = SetPassword(id, bcrypt_hash(newPassword))])

\* The rest of a waiting request, run on the store as it is by then.
Then(c) ==
    CASE c.route = "register" -> register_then(c.arg[1], c.arg[2], c.arg[3])
      [] c.route = "login" -> login_then(c.arg[1], c.arg[2])
      [] c.route = "reset-password" -> reset_password_then(c.user, c.arg[1])
      [] c.route = "admin-reset-password" ->
            admin_reset_password_then(c.arg[1], c.arg[2])

\* ----------------------------------------------------------------- inputs
\* A body of PUT /api/profile/me: the text fields, the link fields and the
\* other fields each with one value, NULL for a field the body omits.
ProfileBody(name, content, links, other, is_public) ==
    [name |-> name, photo_url |-> other, contact_details |-> content,
     location |-> other, skills |-> content, experience |-> content,
     education |-> content, resume_url |-> other, portfolio_url |-> links,
     linkedin_url |-> links, github_url |-> links, is_public |-> is_public]

\* The values the requests of a specification are made with, by field:
\* passwords at registration, at login, at a user's and at an admin's reset,
\* and the bodies of the job and profile routes.
AuthInputs ==
    [regPw |-> {"pw1", ""}, tryPw |-> {"Admin", "pw1", "pw2"},
     newPw |-> {"pw1", ""}, adminNewPw |-> {"pw1", NULL},
     jobBodies |-> {JobBody("dev", "k@x.io"), JobBody(NULL, "k@x.io")},
     jobEditBodies |-> {JobBody(NULL, NULL)},
     profileBodies |-> {ProfileBody(NULL, NULL, NULL, NULL, "false")},
     editEmails |-> {"k@x.io"}, editRoles |-> {"admin", NULL}]

\* The values for the specification of the profile and job contents: bodies
\* that fill a profile, that leave fields out, and that edit a job.
ContentInputs ==
    [regPw |-> {"pw1"}, tryPw |-> {"Admin"},
     newPw |-> {""}, adminNewPw |-> {NULL},
     jobBodies |-> {JobBody("dev", "Admin")},
     jobEditBodies |-> {JobBody("lead", NULL)},
     profileBodies |-> {ProfileBody("n", "c", "l", "o", "false")},
     editEmails |-> {"k@x.io"}, editRoles |-> {NULL}]

\* The values for the specification with waiting requests.
AsyncInputs ==
    [regPw |-> {"pw1"}, tryPw |-> {"Admin", "pw2"},
     newPw |-> {"pw2", ""}, adminNewPw |-> {"pw2", NULL},
     jobBodies |-> {JobBody("dev", "k@x.io")},
     jobEditBodies |-> {JobBody(NULL, NULL)},
     profileBodies |-> {ProfileBody(NULL, NULL, NULL, NULL, "false")},
     editEmails |-> {"k@x.io"}, editRoles |-> {NULL}]

\* The values of the requests a property speaks of: it holds of every such
\* request in every state reached.
AnyInputs ==
    [regPw |-> {"pw1", ""}, tryPw |-> {"Admin", "pw1", "pw2"},
     newPw |-> {"pw1", "pw2", ""}, adminNewPw |-> {"pw1", "pw2", NULL},
     jobBodies |-> {JobBody("dev", "k@x.io"), JobBody("dev", "Admin"),
                    JobBody(NULL, "k@x.io")},
     jobEditBodies |-> {JobBody("lead", NULL), JobBody(NULL, NULL)},
     profileBodies |-> {ProfileBody("n", "c", "l", "o", "false"),
                        ProfileBody("n", "c", NULL, NULL, NULL),
                        ProfileBody(NULL, NULL, NULL, NULL, "true")},
     editEmails |-> {"k@x.io", NULL}, editRoles |-> {"admin", "user", NULL}]

\* ---------------------------------------------------------------- routing
\* The routes, by the middleware registered in front of the handler.
TokenRoutes ==
    {"upload-resume", "upload-photo", "reset-password", "post-job",
     "get-profile", "put-profile"}
AdminRoutes ==
    {"admin-users", "admin-stats", "admin-suspend", "admin-delete-user",
     "admin-reset-password", "admin-delete-job", "admin-clear-socials",
     "admin-clear-profile", "admin-edit-profile", "admin-edit-job"}
GatedRoutes == TokenRoutes \cup AdminRoutes
OpenRoutes == {"register", "login", "forgot-password", "get-jobs"}
Routes == GatedRoutes \cup OpenRoutes

\* The arguments (path parameters and body) of a request to a route. A
\* login's second argument is the row its SELECT returns.
Args(in, route) ==
    CASE route = "register" -> (Names \cup {""}) \X Emails \X in.regPw
      [] route = "login" ->
            { a \in (Names \cup Emails) \X (0..MaxId) \X in.tryPw :
                a[2] \in LoginRows(a[1]) }
      [] route = "forgot-password" -> { <<e>> : e \in Emails }
      [] route = "reset-password" -> { <<p>> : p \in in.newPw }
      [] route \in {"upload-resume", "upload-photo"} -> { <<b>> : b \in BOOLEAN }
      [] route = "post-job" -> { <<b>> : b \in in.jobBodies }
      [] route = "put-profile" -> { <<b>> : b \in in.profileBodies }
      [] route = "admin-suspend" -> Ids \X BOOLEAN
      [] route = "admin-reset-password" -> Ids \X in.adminNewPw
      [] route \in {"admin-delete-user", "admin-clear-socials",
                    "admin-clear-profile"} -> { <<i>> : i \in Ids }
      [] route = "admin-delete-job" -> { <<j>> : j \in JobIds }
      [] route = "admin-edit-profile" -> Ids \X in.editEmails \X in.editRoles
      [] route = "admin-edit-job" -> JobIds \X in.jobEditBodies
      [] OTHER -> {<<>>}


\* Express dispatch: the route's middleware and handler on the request.
Serve(req) ==
    LET h == req.hdr
        a == req.arg
    IN CASE req.route = "register" -> register(a[1], a[2], a[3])
         [] req.route = "login" -> login(a[2], a[3])
         [] req.route = "forgot-password" -> forgot_password(a[1])
         [] req.route = "get-jobs" -> get_jobs
         [] req.route = "reset-password" -> reset_password(h, a[1])
         [] req.route \in {"upload-resume", "upload-photo"} -> upload(h, a[1])
         [] req.route = "post-job" -> post_job(h, a[1])
         [] req.route = "get-profile" -> get_profile(h)
         [] req.route = "put-profile" -> put_profile(h, a[1])
         [] req.route \in {"admin-users", "admin-stats"} -> admin_read(h)
         [] req.route = "admin-suspend" -> admin_suspend(h, a[1], a[2])
         [] req.route = "admin-delete-user" -> admin_delete_user(h, a[1])
         [] req.route = "admin-reset-password" ->
                admin_reset_password(h, a[1], a[2])
         [] req.route = "admin-delete-job" -> admin_delete_job(h, a[1])
         [] req.route = "admin-clear-socials" -> admin_clear(SocialFields, h, a[1])
         [] req.route = "admin-clear-profile" -> admin_clear(ContentFields, h, a[1])
         [] req.route = "admin-edit-profile" ->
                admin_edit_profile(h, a[1], a[2], a[3])
         [] req.route = "admin-edit-job" -> admin_edit_job(h, a[1], a[2])

\* ---------------------------------------------------------------- actions
\* A response r goes out and the waiting requests are left as pend: the
\* store is left as the code left it, the signed token is in the client's
\* hands, and a token refused for suspension is remembered as the last one
\* refused.
Settle(hdr, r, pend) ==
    /\ proc = "serving"
    /\ r.db.userSeq <= MaxId
    /\ r.db.jobSeq <= MaxJobs
    /\ users' = r.db.users
    /\ userSeq' = r.db.userSeq
    /\ profiles' = r.db.profiles
    /\ jobs' = r.db.jobs
    /\ jobSeq' = r.db.jobSeq
    /\ issued' = issued \cup r.signed
    /\ refused' = IF r.error = SuspendedMsg THEN <<hdr[2]>> ELSE refused
    /\ first' = FirstAfter(r.db)
    /\ pending' = pend
    /\ UNCHANGED proc

\* One request served to completion, with no other request served while it
\* waits.
Handle(hdr, r) == Settle(hdr, r, pending)

\* The arguments a request is made with matter only to a handler that runs:
\* a request its gate g rejects is made with one of them.
ArgsFor(g, args) == IF g.next THEN args ELSE {CHOOSE a \in args : TRUE}

Register(in) ==
    \E u \in Names \cup {""}, e \in Emails, p \in in.regPw :
        Handle(<<>>, register(u, e, p))
Login(in) ==
    \E x \in Names \cup Emails, p \in in.tryPw : \E row \in LoginRows(x) :
        Handle(<<>>, login(row, p))
ForgotPassword(in) == \E e \in Emails : Handle(<<>>, forgot_password(e))
GetJobs(in) == Handle(<<>>, get_jobs)
ResetPassword(in) ==
    \E h \in Headers : \E p \in ArgsFor(authenticateToken(h), in.newPw) :
        Handle(h, reset_password(h, p))
UploadResume(in) ==
    \E h \in Headers : \E b \in ArgsFor(authenticateToken(h), BOOLEAN) :
        Handle(h, upload(h, b))
UploadPhoto(in) ==
    \E h \in Headers : \E b \in ArgsFor(authenticateToken(h), BOOLEAN) :
        Handle(h, upload(h, b))
PostJob(in) ==
    \E h \in Headers : \E b \in ArgsFor(authenticateToken(h), in.jobBodies) :
        Handle(h, post_job(h, b))
GetProfile(in) == \E h \in Headers : Handle(h, get_profile(h))
PutProfile(in) ==
    \E h \in Headers : \E b \in ArgsFor(authenticateToken(h), in.profileBodies) :
        Handle(h, put_profile(h, b))
AdminUsers(in) == \E h \in Headers : Handle(h, admin_read(h))
AdminStats(in) == \E h \in Headers : Handle(h, admin_read(h))
AdminSuspend(in) ==
    \E h \in Headers : \E a \in ArgsFor(authenticateAdmin(h), Ids \X BOOLEAN) :
        Handle(h, admin_suspend(h, a[1], a[2]))
AdminDeleteUser(in) ==
    \E h \in Headers : \E i \in ArgsFor(authenticateAdmin(h), Ids) :
        Handle(h, admin_delete_user(h, i))
AdminResetPassword(in) ==
    \E h \in Headers :
        \E a \in ArgsFor(authenticateAdmin(h), Ids \X in.adminNewPw) :
            Handle(h, admin_reset_password(h, a[1], a[2]))
AdminDeleteJob(in) ==
    \E h \in Headers : \E j \in ArgsFor(authenticateAdmin(h), JobIds) :
        Handle(h, admin_delete_job(h, j))
AdminClearSocials(in) ==
    \E h \in Headers : \E i \in ArgsFor(authenticateAdmin(h), Ids) :
        Handle(h, admin_clear(SocialFields, h, i))
AdminClearProfile(in) ==
    \E h \in Headers : \E i \in ArgsFor(authenticateAdmin(h), Ids) :
        Handle(h, admin_clear(ContentFields, h, i))
AdminEditProfile(in) ==
    \E h \in Headers :
        \E a \in ArgsFor(authenticateAdmin(h),
                         Ids \X in.editEmails \X in.editRoles) :
            Handle(h, admin_edit_profile(h, a[1], a[2], a[3]))
AdminEditJob(in) ==
    \E h \in Headers :
        \E a \in ArgsFor(authenticateAdmin(h), JobIds \X in.jobEditBodies) :
            Handle(h, admin_edit_job(h, a[1], a[2]))

\* A request runs up to its await and waits there; nothing is written.
Begin(c) ==
    /\ proc = "serving"
    /\ Len(pending) < MaxPending
    /\ pending' = Append(pending, c)
    /\ UNCHANGED <<proc, users, userSeq, profiles, jobs, jobSeq, issued,
                   refused, first>>

AwaitRegister(in) ==
    \E u \in Names, e \in Emails, p \in in.regPw \ {""} :
        Begin(Waiting("register", NULL, <<u, e, p>>))
AwaitLogin(in) ==
    \E x \in Names \cup Emails, p \in in.tryPw :
        \E row \in LoginRows(x) \ {0} :
            Begin(Waiting("login", NULL, <<Selected(row), p>>))
AwaitResetPassword(in) ==
    \E h \in Headers, p \in in.newPw \ {""} :
        /\ authenticateToken(h).next
        /\ Begin(Waiting("reset-password", authenticateToken(h).user, <<p>>))
AwaitAdminResetPassword(in) ==
    \E h \in Headers, i \in Ids, p \in in.adminNewPw \ {NULL} :
        /\ authenticateAdmin(h).next
        /\ Begin(Waiting("admin-reset-password", authenticateAdmin(h).user,
                         <<i, p>>))

\* bcrypt is done for a waiting request: its handler runs to its end.
Resume ==
    \E k \in 1..Len(pending) :
        Settle(<<>>, Then(pending[k]),
               SubSeq(pending, 1, k - 1) \o SubSeq(pending, k + 1, Len(pending)))

Init ==
    /\ proc = "stopped"
    /\ users = <<>>
    /\ userSeq = 0
    /\ profiles = <<>>
    /\ jobs = <<>>
    /\ jobSeq = 0
    /\ issued = {}
    /\ refused = <<>>
    /\ first = <<>>
    /\ pending = <<>>

NextOn(in) ==
    \/ startServer
    \/ Register(in)
    \/ Login(in)
    \/ ForgotPassword(in)
    \/ GetJobs(in)
    \/ ResetPassword(in)
    \/ UploadResume(in)
    \/ UploadPhoto(in)
    \/ PostJob(in)
    \/ GetProfile(in)
    \/ PutProfile(in)
    \/ AdminUsers(in)
    \/ AdminStats(in)
    \/ AdminSuspend(in)
    \/ AdminDeleteUser(in)
    \/ AdminResetPassword(in)
    \/ AdminDeleteJob(in)
    \/ AdminClearSocials(in)
    \/ AdminClearProfile(in)
    \/ AdminEditProfile(in)
    \/ AdminEditJob(in)

Next == NextOn(AuthInputs)

Spec == Init /\ [][Next]_vars

\* The same server with the requests that write profile and job contents.
NextContent == NextOn(ContentInputs)

SpecContent == Init /\ [][NextContent]_vars

\* The same server with the requests that wait on bcrypt served while other
\* requests come in.
NextAsync ==
    \/ NextOn(AsyncInputs)
    \/ AwaitRegister(AsyncInputs)
    \/ AwaitLogin(AsyncInputs)
    \/ AwaitResetPassword(AsyncInputs)
    \/ AwaitAdminResetPassword(AsyncInputs)
    \/ Resume

SpecAsync == Init /\ [][NextAsync]_vars

\* ------------------------------------------------------------- properties
\* The requests to a route that carry header h, with every argument.
RequestsWith(route, h) ==
    { [route |-> route, hdr |-> h, arg |-> a] : a \in Args(AnyInputs, route) }

\* A response that is a refusal by the gate: the status, no handler run,
\* the store as it was and no token signed.
Refusal(r, status) ==
    r.status = status /\ ~r.ran /\ r.db = db /\ r.signed = {}

Exists(id) == id \in DOMAIN users
Suspended(id) == Exists(id) /\ users[id].is_suspended # 0

\* C1: while the stored suspension flag of a user is set, every request to a
\* gated route (upload, reset-password, POST /jobs, GET and PUT /profile/me,
\* every admin route) that carries a token issued to that user is refused
\* with 403 and its handler does not run, although the token's signature
\* still verifies.
C1_SuspendedTokenRefused ==
    \A t \in issued :
        Suspended(t.id) =>
            /\ jwt_verify(t, JWT_SECRET)
            /\ \A route \in GatedRoutes :
                 \A req \in RequestsWith(route, Bearer(t)) :
                    Refusal(Serve(req), 403)

\* A token of a user who is suspended now has been presented and refused.
C1_Witness ==
    /\ refused # <<>>
    /\ refused[1] \in issued
    /\ Suspended(refused[1].id)
    /\ Refusal(Serve([route |-> "post-job", hdr |-> Bearer(refused[1]),
                      arg |-> <<JobBody("dev", "k@x.io")>>]), 403)

\* C2: every request to an admin route that carries a valid token of a user
\* who is not suspended and whose stored role is not admin is refused with
\* 403, and the store is unchanged.
C2_NonAdminRefused ==
    \A t \in issued :
        (Exists(t.id) /\ ~Suspended(t.id) /\ users[t.id].role # "admin") =>
            \A route \in AdminRoutes :
                \A req \in RequestsWith(route, Bearer(t)) :
                    Refusal(Serve(req), 403)

\* A user with role user, not suspended, holds a token while an admin and
\* a job exist for the admin routes to act on.
C2_Witness ==
    /\ proc = "serving"
    /\ \E t \in issued :
         /\ Exists(t.id) /\ ~Suspended(t.id) /\ users[t.id].role = "user"
         /\ authenticateToken(Bearer(t)).next
         /\ \E i \in DOMAIN users : i # t.id
         /\ Serve([route |-> "admin-delete-user", hdr |-> Bearer(t),
                   arg |-> <<t.id>>]).error = "Admin access required"

\* C3: the admin gate decides by the role stored for the token's id, not by
\* the role in the token: two validly signed tokens with the same id get the
\* same outcome on every admin route in the same state, whatever role each
\* carries, and the request is let through exactly when the stored role of
\* that id is admin (and the user is not suspended).
C3_AdminGateByStoredRole ==
    \A t1 \in issued :
        /\ authenticateAdmin(Bearer(t1)).next
             <=> (Exists(t1.id) /\ ~Suspended(t1.id)
                    /\ users[t1.id].role = "admin")
        /\ \A t2 \in issued :
             t1.id = t2.id =>
                \A route \in AdminRoutes :
                    \A a \in Args(AnyInputs, route) :
                        LET r1 == Serve([route |-> route, hdr |-> Bearer(t1),
                                         arg |-> a])
                            r2 == Serve([route |-> route, hdr |-> Bearer(t2),
                                         arg |-> a])
                        IN r1.status = r2.status /\ r1.ran = r2.ran
                           /\ r1.db = r2.db

\* Two tokens of the same user, one issued with role user and one with role
\* admin, are both let through the admin gate: the user is admin in the store.
C3_Witness ==
    \E t1, t2 \in issued :
        /\ t1.id = t2.id /\ t1.role = "user" /\ t2.role = "admin"
        /\ authenticateAdmin(Bearer(t1)).next
        /\ authenticateAdmin(Bearer(t2)).next

\* The tokens of the clients with a signature not made with the secret.
Resigned == { [t EXCEPT !.sig = "not-the-secret"] : t \in issued } \cup Forged

\* C4: on every gated route a request without a token in its Authorization
\* header is refused with 401 and one whose token does not verify against
\* the secret with 403; in both cases neither the suspension lookup nor the
\* handler runs.
C4_NoTokenOrBadToken ==
    \A route \in GatedRoutes :
        /\ \A h \in {<<>>, <<"Bearer">>} :
             \A req \in RequestsWith(route, h) :
                LET r == Serve(req) IN Refusal(r, 401) /\ ~r.looked
        /\ \A t \in Resigned :
             \A req \in RequestsWith(route, Bearer(t)) :
                LET r == Serve(req) IN Refusal(r, 403) /\ ~r.looked

\* A token with a bad signature that names a suspended user is refused as
\* not verifying (no lookup), where the user's own token is refused as
\* suspended.
C4_Witness ==
    /\ proc = "serving"
    /\ \E t \in issued :
         /\ Suspended(t.id)
         /\ get_profile(Bearer([t EXCEPT !.sig = "not-the-secret"])).error
              = "Forbidden"
         /\ get_profile(Bearer(t)).error = SuspendedMsg
         /\ get_profile(<<>>).status = 401

\* C5: a token that was refused while its user was suspended is accepted
\* again on GET /profile/me (200) once the user is unsuspended, without a
\* new login.
C5_UnsuspendedTokenAccepted ==
    (refused # <<>> /\ Exists(refused[1].id) /\ ~Suspended(refused[1].id)) =>
        LET r == get_profile(Bearer(refused[1])) IN
        r.status = 200 /\ r.ran /\ r.out = <<refused[1].id>>

\* A token has been refused for suspension and its user is unsuspended now.
C5_Witness ==
    /\ proc = "serving"
    /\ refused # <<>>
    /\ Exists(refused[1].id)
    /\ ~Suspended(refused[1].id)
    /\ get_profile(Bearer(refused[1])).status = 200

\* The caller of a request is an admin: its token verifies and names a user
\* who is stored with role admin and is not suspended.
AdminCaller(h) ==
    /\ Len(h) = 2
    /\ jwt_verify(h[2], JWT_SECRET)
    /\ Exists(h[2].id)
    /\ users[h[2].id].role = "admin"
    /\ ~Suspended(h[2].id)

\* Between stores a and b some user's role or suspension flag differs, or a
\* user of a is missing from b.
PrivilegedChange(a, b) ==
    \E i \in DOMAIN a :
        \/ i \notin DOMAIN b
        \/ b[i].role # a[i].role
        \/ b[i].is_suspended # a[i].is_suspended

\* C6: a user's suspension flag or role changes, or a user is removed, only
\* by a request to an admin route made by a caller who is admin and not
\* suspended at that moment; the startup bootstrap changes roles only.
C6_PrivilegedChangeByAdminOnly ==
    /\ \A route \in Routes :
         \A h \in (IF route \in GatedRoutes THEN Headers \cup
                       { Bearer(t) : t \in Resigned } ELSE {<<>>}) :
            \/ route \in AdminRoutes /\ AdminCaller(h)
            \/ \A req \in RequestsWith(route, h) :
                  ~PrivilegedChange(users, Serve(req).db.users)
    /\ DOMAIN Promote(users) = DOMAIN users
    /\ \A i \in DOMAIN users :
         Promote(users)[i].is_suspended = users[i].is_suspended

\* An admin has suspended a user and lifted the suspension again; the user,
\* who is not admin, holds a token, and the suspension it asks for with that
\* token is turned down where the admin's is carried out.
C6_Witness ==
    /\ proc = "serving"
    /\ refused # <<>>
    /\ refused[1] \in issued
    /\ Exists(refused[1].id)
    /\ ~Suspended(refused[1].id)
    /\ users[refused[1].id].role = "user"
    /\ ~PrivilegedChange(users,
           admin_suspend(Bearer(refused[1]), refused[1].id, TRUE).db.users)
    /\ \E t \in issued :
          /\ AdminCaller(Bearer(t))
          /\ PrivilegedChange(users,
                admin_suspend(Bearer(t), refused[1].id, TRUE).db.users)

\* C7: after a successful DELETE /admin/users/:id the store holds no user
\* row, no profile and no job of that id, and every row of another user is
\* as it was.
C7_DeleteUserCascade ==
    \A h \in Headers : \A id \in Ids :
        LET r == admin_delete_user(h, id) IN
        (r.ran /\ r.status = 200) =>
            /\ id \notin DOMAIN r.db.users
            /\ id \notin DOMAIN r.db.profiles
            /\ \A j \in DOMAIN r.db.jobs : r.db.jobs[j].user_id # id
            /\ DOMAIN r.db.users = DOMAIN users \ {id}
            /\ DOMAIN r.db.profiles = DOMAIN profiles \ {id}
            /\ DOMAIN r.db.jobs = { j \in DOMAIN jobs : jobs[j].user_id # id }
            /\ \A i \in DOMAIN r.db.users : r.db.users[i] = users[i]
            /\ \A i \in DOMAIN r.db.profiles : r.db.profiles[i] = profiles[i]
            /\ \A j \in DOMAIN r.db.jobs : r.db.jobs[j] = jobs[j]

\* An admin deletes a user who has a profile and a job while another user
\* with a profile stays.
C7_Witness ==
    \E h \in Headers : \E id \in DOMAIN users :
        /\ admin_delete_user(h, id).status = 200
        /\ id \in DOMAIN profiles
        /\ \E j \in DOMAIN jobs : jobs[j].user_id = id
        /\ \E i \in DOMAIN users : i # id /\ i \in DOMAIN profiles
        /\ admin_delete_user(h, id).db.jobs = <<>>

\* Every profile and every job of store st references a user of st.
NoOrphans(st) ==
    /\ \A p \in DOMAIN st.profiles : p \in DOMAIN st.users
    /\ \A j \in DOMAIN st.jobs : st.jobs[j].user_id \in DOMAIN st.users

\* C8: in every state every profile and every job posting references a user
\* that exists, and POST /jobs stores no posting whose user_id does not
\* resolve, for any token that passes the gate, also one issued to a user
\* deleted since.
C8_NoOrphanRows ==
    /\ NoOrphans(db)
    /\ \A t \in issued :
         \A req \in RequestsWith("post-job", Bearer(t)) :
            NoOrphans(Serve(req).db)

\* The token of a deleted user passes the gate and its POST /jobs is turned
\* down by the foreign key.
C8_Witness ==
    \E t \in issued :
        /\ ~Exists(t.id)
        /\ authenticateToken(Bearer(t)).next
        /\ post_job(Bearer(t), JobBody("dev", "k@x.io")).status = 500
        /\ jobSeq < MaxJobs

\* The passwords a login may be tried with.
Passwords == AnyInputs.tryPw \cup AnyInputs.newPw \cup AnyInputs.regPw

\* C9 as stated: for every user, login with the correct password succeeds
\* with a token for that user both by username and by email, and fails with
\* 401 for every incorrect password, whatever the set of users.
C9_LoginByEitherIdentifier ==
    \A i \in DOMAIN users :
        \A x \in {users[i].username, users[i].email} :
            \A row \in LoginRows(x) : \A p \in Passwords :
                LET r == login(row, p) IN
                IF bcrypt_compare(p, users[i].password)
                THEN r.status = 200 /\ r.out[1].id = i
                ELSE r.status = 401

\* Some user has this username or this email.
Taken(u, e) ==
    \E i \in DOMAIN users : users[i].username = u \/ users[i].email = e

\* C10 as stated: a registration whose username or email is that of an
\* existing user fails with 400 'Username or email already exists', issues
\* no token and leaves the store unchanged.
C10_AsStated ==
    \A u \in Names \cup {""}, e \in Emails \cup {""}, p \in Passwords :
        Taken(u, e) =>
            LET r == register(u, e, p) IN
            /\ r.status = 400
            /\ r.error = "Username or email already exists"
            /\ r.signed = {} /\ r.out = <<>>
            /\ r.db = db

\* C10, amended: a registration with a username, an email and a password
\* (none of them empty) whose username or email is that of an existing user
\* fails with 400 'Username or email already exists', issues no token and
\* leaves the store unchanged; with a field missing it fails with 400
\* 'Missing fields', and the store is unchanged as well.
C10_ConflictRejected ==
    \A u \in Names \cup {""}, e \in Emails \cup {""}, p \in Passwords :
        Taken(u, e) =>
            LET r == register(u, e, p) IN
            /\ r.status = 400
            /\ r.error = IF u = "" \/ e = "" \/ p = ""
                         THEN "Missing fields"
                         ELSE "Username or email already exists"
            /\ r.signed = {} /\ r.out = <<>>
            /\ r.db = db

\* With room for another user, a registration collides by its email alone
\* with an existing user, and another by its username alone.
C10_Witness ==
    /\ proc = "serving"
    /\ userSeq < MaxId
    /\ \E u \in Names, e \in Emails :
         /\ \E i \in DOMAIN users : users[i].email = e
         /\ ~\E i \in DOMAIN users : users[i].username = u
         /\ register(u, e, "pw1").error = "Username or email already exists"
    /\ \E u \in Names, e \in Emails :
         /\ \E i \in DOMAIN users : users[i].username = u
         /\ ~\E i \in DOMAIN users : users[i].email = e
         /\ register(u, e, "pw1").error = "Username or email already exists"

\* ---------------------------------------------------- identity, bootstrap
\* No two rows of us have the same username and no two the same email.
Unique(us) ==
    \A i, j \in DOMAIN us :
        i # j => us[i].username # us[j].username /\ us[i].email # us[j].email

\* C11: in every state no two users share a username and no two share an
\* email, whatever request is served next (a registration, an admin profile
\* edit that names an email, a deletion) and after startup seeding; a user
\* created by registration has role user.
C11_UniqueIdentities ==
    /\ Unique(users)
    /\ Unique(bootstrap.db.users)
    /\ \A route \in Routes :
         \A h \in (IF route \in GatedRoutes THEN Headers ELSE {<<>>}) :
            \A req \in RequestsWith(route, h) :
                LET r == Serve(req) IN
                /\ Unique(r.db.users)
                /\ (route = "register" /\ r.status = 201) =>
                      /\ DOMAIN r.db.users = DOMAIN users \cup {r.out[1].id}
                      /\ r.out[1].id \notin DOMAIN users
                      /\ r.db.users[r.out[1].id].role = "user"
                      /\ r.out[1].role = "user"

\* Two users are stored, one of them registered; a registration under the
\* other's name is turned down, and so is an admin's edit that would give
\* one the other's email.
C11_Witness ==
    /\ proc = "serving"
    /\ \E i, j \in DOMAIN users :
         /\ i # j
         /\ users[j].role = "user"
         /\ register(users[i].username, "k@x.io", "pw1").status = 400
         /\ \E t \in issued :
              /\ authenticateAdmin(Bearer(t)).next
              /\ admin_edit_profile(Bearer(t), j, users[i].email, NULL).status
                   = 500

\* C12 as stated: whatever the store holds when the process starts, startup
\* completes and leaves a user with role admin.
C12_BootstrapCompletes ==
    /\ proc # "crashed"
    /\ bootstrap.proc = "serving"
    /\ \E i \in DOMAIN bootstrap.db.users :
         bootstrap.db.users[i].role = "admin"

\* C13 as stated: in every state reached after startup some user has role
\* admin.
C13_AlwaysAnAdmin ==
    proc = "serving" => \E i \in DOMAIN users : users[i].role = "admin"

\* C14 as stated: the user created into a store with zero users has role
\* admin once startup has run.
C14_FirstUserPromoted ==
    (first # <<>> /\ first[1] \in DOMAIN users /\ bootstrap.proc = "serving")
        => bootstrap.db.users[first[1]].role = "admin"

\* ------------------------------------------------------- profiles and jobs
\* The headers a client can send to a route.
HeadersOf(route) == IF route \in GatedRoutes THEN Headers ELSE {<<>>}

\* The id of the user a header's token names; 0 without a token.
CallerId(h) == IF Len(h) = 2 THEN h[2].id ELSE 0

\* C15: clear-profile on user u sets exactly u's skills, experience,
\* education and contact_details to NULL, clear-socials exactly u's
\* portfolio, linkedin and github links; every other field of u's profile,
\* every other profile, every user row and every job is as it was.
C15_ClearFrames ==
    \A h \in Headers : AdminCaller(h) =>
        \A u \in Ids :
            LET c == Serve([route |-> "admin-clear-profile", hdr |-> h,
                            arg |-> <<u>>])
                l == Serve([route |-> "admin-clear-socials", hdr |-> h,
                            arg |-> <<u>>])
            IN /\ c.status = 200 /\ l.status = 200
               /\ c.db.users = users /\ l.db.users = users
               /\ c.db.jobs = jobs /\ l.db.jobs = jobs
               /\ DOMAIN c.db.profiles = DOMAIN profiles
               /\ DOMAIN l.db.profiles = DOMAIN profiles
               /\ \A i \in DOMAIN profiles : \A f \in DOMAIN profiles[i] :
                    /\ c.db.profiles[i][f] =
                         IF i = u /\ f \in {"skills", "experience", "education",
                                            "contact_details"}
                         THEN NULL ELSE profiles[i][f]
                    /\ l.db.profiles[i][f] =
                         IF i = u /\ f \in {"portfolio_url", "linkedin_url",
                                            "github_url"}
                         THEN NULL ELSE profiles[i][f]

\* An admin can clear a profile that has every field filled while another
\* user's profile is filled as well.
C15_Witness ==
    \E h \in Headers : \E u, v \in DOMAIN profiles :
        /\ AdminCaller(h)
        /\ u # v
        /\ \A f \in DOMAIN profiles[u] : profiles[u][f] # NULL
        /\ \A f \in DOMAIN profiles[v] : profiles[v][f] # NULL
        /\ admin_clear(ContentFields, h, u).db.profiles[u].skills = NULL
        /\ admin_clear(SocialFields, h, u).db.profiles[u].github_url = NULL

\* C16: every user has a profile and every profile a user, in every state,
\* after every request and after startup; registration stores the profile
\* with the username as its name; a profile goes only with its user, by
\* DELETE /admin/users/:id.
C16_OneProfilePerUser ==
    /\ DOMAIN profiles = DOMAIN users
    /\ DOMAIN bootstrap.db.profiles = DOMAIN bootstrap.db.users
    /\ DOMAIN profiles \subseteq DOMAIN bootstrap.db.profiles
    /\ \A route \in Routes : \A h \in HeadersOf(route) :
         \A req \in RequestsWith(route, h) :
            LET r == Serve(req) IN
            /\ DOMAIN r.db.profiles = DOMAIN r.db.users
            /\ (route = "register" /\ r.status = 201) =>
                  r.db.profiles[r.out[1].id].name = req.arg[1]
            /\ DOMAIN profiles \ DOMAIN r.db.profiles # {} =>
                  /\ route = "admin-delete-user"
                  /\ DOMAIN profiles \ DOMAIN r.db.profiles = {req.arg[1]}

\* A registered user has its profile under its username while the user
\* created before it is gone together with its profile.
C16_Witness ==
    /\ proc = "serving"
    /\ \E i \in DOMAIN users :
         /\ users[i].role = "user"
         /\ profiles[i].name = users[i].username
         /\ \E j \in 1..(i - 1) : j \notin DOMAIN users /\ j \notin DOMAIN profiles

\* C17: PUT /profile/me with a token of user u changes at most u's profile
\* and u's is_public flag, and GET /profile/me returns u's profile only; no
\* request of a caller who is not an admin changes the profile of another
\* user.
C17_ProfileOwnership ==
    /\ \A t \in issued :
         /\ get_profile(Bearer(t)).out \in {<<>>, <<t.id>>}
         /\ \A req \in RequestsWith("put-profile", Bearer(t)) :
              LET r == Serve(req) IN
              /\ r.db.jobs = jobs
              /\ DOMAIN r.db.profiles = DOMAIN profiles
              /\ DOMAIN r.db.users = DOMAIN users
              /\ \A i \in DOMAIN profiles :
                    i # t.id => r.db.profiles[i] = profiles[i]
              /\ \A i \in DOMAIN users :
                    [r.db.users[i] EXCEPT !.is_public = users[i].is_public]
                        = users[i]
              /\ \A i \in DOMAIN users :
                    i # t.id => r.db.users[i] = users[i]
    /\ \A route \in Routes : \A h \in HeadersOf(route) :
         AdminCaller(h) \/
         \A req \in RequestsWith(route, h) :
            \A i \in DOMAIN profiles :
                i # CallerId(h) =>
                    /\ i \in DOMAIN Serve(req).db.profiles
                    /\ Serve(req).db.profiles[i] = profiles[i]

\* A user who is not admin has filled its own profile and can do so again,
\* while another user's profile is as it was created.
C17_Witness ==
    \E t \in issued : \E i \in DOMAIN profiles :
        /\ ~AdminCaller(Bearer(t))
        /\ t.id \in DOMAIN profiles
        /\ i # t.id
        /\ profiles[t.id].skills # NULL
        /\ profiles[i].name = "Administrator"
        /\ put_profile(Bearer(t),
                       ProfileBody("n", "c", NULL, NULL, NULL)).status = 200

\* C18: after a successful PUT /profile/me each of the eleven profile fields
\* holds the request's value, NULL for a field the request leaves out; the
\* user's is_public flag is set when the request has is_public and is left
\* alone when it has not.
C18_FullReplace ==
    \A t \in issued :
        t.id \in DOMAIN profiles =>
            \A b \in AnyInputs.profileBodies :
                LET r == put_profile(Bearer(t), b) IN
                r.status = 200 =>
                    /\ \A f \in {"name", "photo_url", "contact_details",
                                 "location", "skills", "experience",
                                 "education", "resume_url", "portfolio_url",
                                 "linkedin_url", "github_url"} :
                          r.db.profiles[t.id][f] = b[f]
                    /\ r.db.users[t.id].is_public =
                          IF b.is_public = NULL THEN users[t.id].is_public
                          ELSE IF b.is_public = "true" THEN 1 ELSE 0

\* A user whose profile is filled and whose flag is 0 sends a body with the
\* name and the text fields only: the other fields are cleared and the flag
\* stays.
C18_Witness ==
    \E t \in issued :
        /\ t.id \in DOMAIN profiles
        /\ \A f \in DOMAIN profiles[t.id] : profiles[t.id][f] # NULL
        /\ users[t.id].is_public = 0
        /\ LET r == put_profile(Bearer(t),
                                ProfileBody("n", "c", NULL, NULL, NULL))
           IN /\ r.status = 200
              /\ r.db.profiles[t.id].github_url = NULL
              /\ r.db.profiles[t.id].location = NULL
              /\ r.db.users[t.id].is_public = 0

\* C19: a request leaves every existing job as it is unless it is made to
\* an admin route by an admin; a job's fields change only by PUT
\* /admin/jobs/:id on that job, and a job goes only by DELETE
\* /admin/jobs/:id on it or by the deletion of its owning user; startup
\* leaves the jobs alone.
C19_JobsChangedByAdminOnly ==
    /\ bootstrap.db.jobs = jobs
    /\ \A route \in Routes : \A h \in HeadersOf(route) :
         \A req \in RequestsWith(route, h) :
            LET r == Serve(req) IN
            \A j \in DOMAIN jobs :
                /\ (route \in AdminRoutes /\ AdminCaller(h))
                      \/ (j \in DOMAIN r.db.jobs /\ r.db.jobs[j] = jobs[j])
                /\ j \notin DOMAIN r.db.jobs =>
                      \/ route = "admin-delete-job" /\ req.arg[1] = j
                      \/ route = "admin-delete-user"
                            /\ req.arg[1] = jobs[j].user_id
                /\ (j \in DOMAIN r.db.jobs /\ r.db.jobs[j] # jobs[j]) =>
                      route = "admin-edit-job" /\ req.arg[1] = j

\* A job that an admin has edited belongs to a user who is not admin and
\* whose token passes the ordinary gate.
C19_Witness ==
    \E j \in DOMAIN jobs : \E t \in issued :
        /\ jobs[j].title = "lead"
        /\ jobs[j].user_id = t.id
        /\ authenticateToken(Bearer(t)).next
        /\ ~AdminCaller(Bearer(t))
        /\ \E a \in issued : AdminCaller(Bearer(a))

\* C20 as stated: a job stored by POST /jobs has the id of the caller's
\* token as user_id and names that caller (by username or email) in
\* posted_by, whatever the body holds.
C20_JobAttributedToCaller ==
    \A t \in issued : \A b \in AnyInputs.jobBodies :
        LET r == post_job(Bearer(t), b) IN
        r.status = 201 =>
            /\ r.db.jobs[r.out[1]].user_id = t.id
            /\ r.db.jobs[r.out[1]].posted_by
                 \in {users[t.id].username, users[t.id].email,
                      t.username, t.email}

\* ------------------------------------------------------ passwords, tokens
\* In the rows us the password of user u is p: of the passwords a login may
\* be tried with, p and no other compares equal to the stored hash.
PasswordIs(us, u, p) ==
    \A q \in Passwords : bcrypt_compare(q, us[u].password) <=> q = p

\* Store st is the store as it is but for the password of user u.
OnlyPasswordOf(st, u) ==
    /\ st.profiles = profiles /\ st.jobs = jobs
    /\ st.userSeq = userSeq /\ st.jobSeq = jobSeq
    /\ DOMAIN st.users = DOMAIN users
    /\ \A i \in DOMAIN users :
         IF i = u
         THEN [st.users[i] EXCEPT !.password = users[i].password] = users[i]
         ELSE st.users[i] = users[i]

\* The waiting requests of a route.
WaitingOn(route) ==
    { pending[k] : k \in { n \in 1..Len(pending) : pending[n].route = route } }

\* C21: after a successful reset of the password of an existing user u to p,
\* by u on POST /auth/reset-password or by an admin on PUT
\* /admin/users/:id/reset-password (neither takes the old password), a login
\* on u's row succeeds with p and fails with every other password, the old
\* one included, and nothing else in the store has changed: no other user's
\* password, role or suspension flag. This holds also when the request has
\* waited on bcrypt while other requests were served.
C21_PasswordReset ==
    /\ \A i \in DOMAIN users : \A q \in Passwords :
         login(i, q).status = IF PasswordIs(users, i, q) THEN 200 ELSE 401
    /\ \A t \in issued : \A p \in AnyInputs.newPw :
         LET r == reset_password(Bearer(t), p) IN
         (r.status = 200 /\ Exists(t.id)) =>
             PasswordIs(r.db.users, t.id, p) /\ OnlyPasswordOf(r.db, t.id)
    /\ \A t \in issued : \A u \in DOMAIN users : \A p \in AnyInputs.adminNewPw :
         LET r == admin_reset_password(Bearer(t), u, p) IN
         r.status = 200 =>
             PasswordIs(r.db.users, u, p) /\ OnlyPasswordOf(r.db, u)
    /\ \A c \in WaitingOn("reset-password") :
         Exists(c.user.id) =>
             /\ Then(c).status = 200
             /\ PasswordIs(Then(c).db.users, c.user.id, c.arg[1])
             /\ OnlyPasswordOf(Then(c).db, c.user.id)
    /\ \A c \in WaitingOn("admin-reset-password") :
         Exists(c.arg[1]) =>
             /\ Then(c).status = 200
             /\ PasswordIs(Then(c).db.users, c.arg[1], c.arg[2])
             /\ OnlyPasswordOf(Then(c).db, c.arg[1])

\* A registered user's password has been reset: the login with the new
\* password succeeds and the one with the password of the registration
\* fails, while the admin's password is as seeded; and a further reset of
\* the user is waiting on bcrypt.
C21_Witness ==
    /\ proc = "serving"
    /\ \E u, a \in DOMAIN users :
         /\ users[u].role = "user"
         /\ login(u, "pw2").status = 200
         /\ login(u, "pw1").status = 401
         /\ a # u
         /\ login(a, "Admin").status = 200
         /\ \E c \in WaitingOn("admin-reset-password") : c.arg[1] = u

\* Token t carries the id, username, email and role of a row of us.
EmbedsRowOf(t, us) ==
    /\ t.id \in DOMAIN us
    /\ t.username = us[t.id].username
    /\ t.email = us[t.id].email
    /\ t.role = us[t.id].role

\* C22 as stated: every token issued carries the id, username, email and
\* role of its user as the store holds them when the token is signed: a
\* registration's token the new row with role user, a login's token the
\* user's stored role, also when the request has waited on bcrypt.
C22_TokenEmbedsStoredUser ==
    /\ \A u \in Names, e \in Emails, p \in AnyInputs.regPw :
         LET r == register(u, e, p) IN
         r.status = 201 =>
             /\ r.signed = {r.out[1]}
             /\ EmbedsRowOf(r.out[1], r.db.users)
             /\ r.out[1].role = "user"
             /\ r.out[1].id \notin DOMAIN users
    /\ \A i \in DOMAIN users : \A p \in Passwords :
         LET r == login(i, p) IN
         r.status = 200 =>
             /\ r.signed = {r.out[1]}
             /\ r.out[1].id = i
             /\ EmbedsRowOf(r.out[1], users)
    /\ \A c \in WaitingOn("register") \cup WaitingOn("login") :
         LET r == Then(c) IN
         r.signed # {} =>
             /\ r.signed = {r.out[1]}
             /\ EmbedsRowOf(r.out[1], r.db.users)

\* C23: a token the server has signed verifies in every later state,
\* whatever has been done to its user since (password reset, suspension,
\* deletion, later logins), and a token with another signature in none: the
\* gate gets past the verification to the suspension lookup for the first
\* and never for the second, and it turns a signed token down only while
\* its user is stored as suspended.
C23_VerificationIgnoresStore ==
    /\ \A t \in issued :
         /\ jwt_verify(t, JWT_SECRET)
         /\ authenticateToken(Bearer(t)).looked
         /\ authenticateToken(Bearer(t)).error # "Forbidden"
         /\ authenticateToken(Bearer(t)).next <=> ~Suspended(t.id)
    /\ \A t \in Resigned :
         /\ ~jwt_verify(t, JWT_SECRET)
         /\ authenticateToken(Bearer(t)).error = "Forbidden"

\* Of the tokens signed so far one belongs to a user deleted since, one to
\* a user suspended now and one to a user whose password is no longer the
\* one it logged in with.
C23_Witness ==
    /\ proc = "serving"
    /\ \E t \in issued : ~Exists(t.id) /\ authenticateToken(Bearer(t)).next
    /\ \E t \in issued :
         /\ Suspended(t.id)
         /\ authenticateToken(Bearer(t)).error = SuspendedMsg
         /\ ~bcrypt_compare("Admin", users[t.id].password)
         /\ t.username = "Admin"

\* ------------------------------------------------------------ interleaving
\* Store st shows no half-done request: every user has its profile, every
\* profile and every job its user.
Whole(st) == DOMAIN st.profiles = DOMAIN st.users /\ NoOrphans(st)

\* C24: requests are interleaved only where a handler awaits, and no handler
\* awaits between the statements of its mutation: in every state another
\* request can observe, and after every registration (its two INSERTs), user
\* deletion (its three DELETEs) and profile update (its two UPDATEs), served
\* at once or resumed after a wait, every user has a profile and no profile
\* or job of a deleted user is left; a profile update answered 200 has
\* written the profile and the is_public flag together.
C24_NoPartialMutation ==
    /\ Whole(db)
    /\ \A k \in 1..Len(pending) : Whole(Then(pending[k]).db)
    /\ \A route \in {"register", "admin-delete-user", "put-profile"} :
         \A h \in HeadersOf(route) : \A req \in RequestsWith(route, h) :
            LET r == Serve(req) IN
            /\ Whole(r.db)
            /\ (route = "admin-delete-user" /\ r.status = 200) =>
                  /\ req.arg[1] \notin DOMAIN r.db.users
                  /\ req.arg[1] \notin DOMAIN r.db.profiles
                  /\ \A j \in DOMAIN r.db.jobs :
                        r.db.jobs[j].user_id # req.arg[1]
            /\ (route = "put-profile" /\ r.status = 200
                    /\ CallerId(h) \in DOMAIN profiles
                    /\ req.arg[1].is_public # NULL) =>
                  /\ r.db.profiles[CallerId(h)].name = req.arg[1].name
                  /\ r.db.users[CallerId(h)].is_public =
                        IF req.arg[1].is_public = "true" THEN 1 ELSE 0

\* While a login waits on bcrypt, its user has been deleted with its profile
\* and a job has gone; a user registered after that user has its profile.
C24_Witness ==
    /\ proc = "serving"
    /\ jobSeq = 1 /\ jobs = <<>>
    /\ \E c \in WaitingOn("login") :
         /\ c.arg[1].id \notin DOMAIN users
         /\ c.arg[1].id \notin DOMAIN profiles
         /\ \E i \in DOMAIN users : i > c.arg[1].id /\ i \in DOMAIN profiles

\* ------------------------------------------------------------- moderation
\* The admin's requests that name a user, and those that name a job.
UserTargetRoutes ==
    {"admin-suspend", "admin-delete-user", "admin-reset-password",
     "admin-clear-socials", "admin-clear-profile"}
JobTargetRoutes == {"admin-delete-job", "admin-edit-job"}

\* The requests of an admin caller h to moderation routes whose target (the
\* :id of the path) is not stored.
MissingTarget(h) ==
    { req \in UNION { RequestsWith(route, h) :
                        route \in UserTargetRoutes \cup JobTargetRoutes } :
        IF req.route \in UserTargetRoutes
        THEN req.arg[1] \notin DOMAIN users
        ELSE req.arg[1] \notin DOMAIN jobs }

\* C25 as stated: an admin's moderation request on a user id without a user
\* or a job id without a job is answered 404 and leaves the store unchanged.
C25_MissingTargetNotFound ==
    \A h \in Headers : AdminCaller(h) =>
        \A req \in MissingTarget(h) :
            Serve(req).status = 404 /\ Serve(req).db = db

\* ------------------------------------------------------------------- gate
\* The gate in front of a route.
GateOf(route, h) ==
    IF route \in AdminRoutes THEN authenticateAdmin(h) ELSE authenticateToken(h)

\* C26: the gate writes nothing. A request turned down at any stage (no
\* token, bad signature, suspended, not admin) gets 401 or 403, its handler
\* does not run, the store is as it was and no token is signed; for a request
\* let through the gate has done nothing but hand the handler the token's
\* own id, username, email and role as req.user, and the handler runs.
C26_GateWritesNothing ==
    \A route \in GatedRoutes :
        \A h \in Headers \cup { Bearer(t) : t \in Resigned } :
            LET g == GateOf(route, h) IN
            \A req \in RequestsWith(route, h) :
                IF g.next
                THEN /\ g.user = h[2]
                     /\ Serve(req).ran
                ELSE /\ g.user = NULL
                     /\ g.status \in {401, 403}
                     /\ Refusal(Serve(req), g.status)

\* A token issued with role user passes the admin gate, its user being
\* admin in the store by now, and is handed on with role user; the token of
\* a deleted user passes the token gate and is turned down by the admin gate.
C26_Witness ==
    /\ proc = "serving"
    /\ \E t \in issued :
         /\ t.role = "user"
         /\ authenticateAdmin(Bearer(t)).next
         /\ authenticateAdmin(Bearer(t)).user.role = "user"
    /\ \E t \in issued :
         /\ ~Exists(t.id)
         /\ authenticateToken(Bearer(t)).next
         /\ authenticateAdmin(Bearer(t)).error = "Admin access required"

\* The caller a waiting request was let through for may still make it: the
\* user is stored and not suspended, and is admin where the route asks it.
StillAllowed(c) ==
    /\ Exists(c.user.id)
    /\ ~Suspended(c.user.id)
    /\ c.route = "admin-reset-password" => users[c.user.id].role = "admin"

\* C27 as stated: a password reset that has waited on bcrypt.hash writes
\* the password only if its caller is, at the moment of the UPDATE, still
\* stored, not suspended and (on the admin route) admin.
C27_NoWriteForRevokedCaller ==
    \A c \in WaitingOn("reset-password") \cup WaitingOn("admin-reset-password") :
        StillAllowed(c) \/ Then(c).db = db

\* C28 as stated: no request to a gated route that carries a token of a
\* user deleted since reaches its handler: each is turned down by the gate.
C28_DeletedUserRefused ==
    \A t \in issued :
        ~Exists(t.id) =>
            \A route \in GatedRoutes :
                \A req \in RequestsWith(route, Bearer(t)) :
                    LET r == Serve(req) IN
                    ~r.ran /\ r.status \in {401, 403} /\ r.db = db

\* C29: login does not look at the suspension flag. A suspended user with
\* the right password gets 200 and a newly signed token, as it would
\* unsuspended; every gated request with that token is refused with 403
\* while the flag is set, and the store is as it was.
C29_LoginIgnoresSuspension ==
    \A i \in DOMAIN users : \A p \in Passwords :
        (users[i].is_suspended # 0 /\ users[i].password = bcrypt_hash(p)) =>
            LET r == login(i, p) IN
            /\ r.status = 200
            /\ r.db = db
            /\ r.signed = {r.out[1]}
            /\ r.out[1].id = i
            /\ jwt_verify(r.out[1], JWT_SECRET)
            /\ \A route \in GatedRoutes :
                 \A req \in RequestsWith(route, Bearer(r.out[1])) :
                    /\ Refusal(Serve(req), 403)
                    /\ Serve(req).error = SuspendedMsg

\* A suspended admin holds a token with role admin, which only a login
\* signs; a login with its password would sign that token again now, and
\* the token has been refused for the suspension.
C29_Witness ==
    /\ proc = "serving"
    /\ refused # <<>>
    /\ refused[1] \in issued
    /\ refused[1].role = "admin"
    /\ Suspended(refused[1].id)
    /\ login(refused[1].id, "Admin").status = 200
    /\ login(refused[1].id, "Admin").out = <<refused[1]>>
    /\ get_profile(Bearer(refused[1])).error = SuspendedMsg

\* C30 as stated: forgot-password writes nothing and answers the same for
\* an email that has an account as for one that has none.
C30_ForgotPasswordUniform ==
    \A e1, e2 \in Emails :
        LET r1 == forgot_password(e1)
            r2 == forgot_password(e2)
        IN /\ r1.db = db /\ r1.signed = {}
           /\ r1.status = r2.status
           /\ r1.error = r2.error
           /\ r1.out = r2.out
====
